---- MODULE Spec2Model ----
(***************************************************************************)
(* gosh: an in-memory session store (Room) whose sessions expire after a   *)
(* lifetime without activity.  One goroutine per session                   *)
(* (dispatcher.watch) waits for a ping or for the lifetime to elapse; on   *)
(* timeout it sends the session identifier on the unbuffered killer        *)
(* channel, which the killWatch goroutine receives and turns into a Del.   *)
(* Every Room method runs under Room.mutex.  The model follows the         *)
(* documented version of the file (the one with GetBatch).                 *)
(*                                                                         *)
(* A handler is one action up to the place where it can block with the    *)
(* mutex held (the unbuffered send on the ping channel) and one action     *)
(* from there on.  mutex.Lock() is the guard mutex = "free" of the first:  *)
(* a caller blocked in Lock() is a caller whose action has not happened.   *)
(***************************************************************************)
EXTENDS Integers, Sequences, FiniteSets, TLC

\* ------------------------------------------------------------- bounds
Lifetime  == 1      \* the Room's lifetime, in clock ticks
MaxTimers == 2      \* watch goroutines / ping channels alive at once
MaxBatch  == 2      \* longest keys... argument list of GetBatch

Idens   == {"a", "b"}
Keys    == {"", "k"}
Values  == {"v1", "v2"}
Clients == {"c1", "c2"}
Slots   == 1..MaxTimers

\* ------------------------------------------------------------- errors
ErrNil            == "nil"
ErrAlreadyExists  == "ErrAlreadyExists"
ErrDoesntExist    == "ErrDoesntExist"
ErrKeyDoesntExist == "ErrKeyDoesntExist"

VARIABLES
    mutex,      \* Room.mutex: "free" or the client holding it
    sessions,   \* Room.sessions: iden -> (key -> value), a partial map
    watchers,   \* Room.watchers: iden -> ping channel (named by its slot)
    timers,     \* the watch goroutines, one per ping channel
    reaper,     \* the killWatch goroutine
    pc,         \* each client's position: "idle", or "ping" (in a handler, at the send)
    cur,        \* each client's call in progress
    last,       \* history: the call that returned in the step just taken, and its results
    idle,       \* history: ticks since the session's Add or last successful Get/GetBatch/Set
    lastSet,    \* history: per session and key, the value of the latest successful Set since the latest Add
    explicit    \* history: the ping channels whose session a client's Del removed

vars == <<mutex, sessions, watchers, timers, reaper, pc, cur, last, idle, lastSet, explicit>>

\* ------------------------------------------------------------- Go maps
EmptyMap == [x \in {} |-> ""]

Has(m, k) == k \in DOMAIN m

\* m[k] of a Go map[string]string: the zero value for a missing key
Lookup(m, k) == IF k \in DOMAIN m THEN m[k] ELSE ""

\* m[k] = v
Store(m, k, v) == [x \in (DOMAIN m) \cup {k} |-> IF x = k THEN v ELSE m[x]]

\* delete(m, k)
Delete(m, k) == [x \in (DOMAIN m) \ {k} |-> m[x]]

Min(x, y) == IF x < y THEN x ELSE y

\* ------------------------------------------------------------- calls
NoKeys == << >>

BatchArgs == UNION {[1..n -> Keys] : n \in 0..MaxBatch}

Call(o, i, k, v, ks) == [op |-> o, iden |-> i, key |-> k, value |-> v, keys |-> ks]

NoCall == Call("none", "", "", "", NoKeys)

Returned(by, call, err, val, vals) ==
    [by |-> by, call |-> call, err |-> err, val |-> val, vals |-> vals]

NoReturn == Returned("none", NoCall, ErrNil, "", NoKeys)

\* ------------------------------------------------------------- timers
Exited == [state |-> "exited", iden |-> "", elapsed |-> 0]

Armed(i) == [state |-> "armed", iden |-> i, elapsed |-> 0]

\* a slot names a fresh channel and goroutine when nothing refers to the old ones
FreeSlot(t) ==
    /\ timers[t].state = "exited"
    /\ \A i \in DOMAIN watchers : watchers[i] # t
    /\ reaper.from # t

\* the name the next make(chan struct{}, 0) gets: the least free one
NewSlot == CHOOSE t \in Slots : FreeSlot(t) /\ \A u \in Slots : FreeSlot(u) => t <= u

\* accessCheck with the wrong error for a session that is not there
accessCheck_WrongError(iden, key) ==
    IF iden \notin DOMAIN sessions THEN ErrKeyDoesntExist
    ELSE IF iden \notin DOMAIN watchers THEN ErrKeyDoesntExist
    ELSE IF key # "" /\ ~Has(sessions[iden], key) THEN ErrKeyDoesntExist
    ELSE ErrNil

\* ------------------------------------------------------------- Room.accessCheck
accessCheck(iden, key) ==
    IF iden \notin DOMAIN sessions THEN ErrDoesntExist
    ELSE IF iden \notin DOMAIN watchers THEN ErrDoesntExist
    ELSE IF key # "" /\ ~Has(sessions[iden], key) THEN ErrKeyDoesntExist
    ELSE ErrNil

\* ------------------------------------------------------------- NewRoom
Init ==
    /\ mutex = "free"
    /\ sessions = EmptyMap
    /\ watchers = EmptyMap
    /\ timers = [t \in Slots |-> Exited]
    /\ reaper = [pc |-> "recv", iden |-> "", from |-> 0]
    /\ pc = [c \in Clients |-> "idle"]
    /\ cur = [c \in Clients |-> NoCall]
    /\ last = NoReturn
    /\ idle = [i \in Idens |-> 0]
    /\ lastSet = [i \in Idens |-> EmptyMap]
    /\ explicit = {}

\* ------------------------------------------------------------- helpers of the handlers
\* a handler returns: the deferred Unlock has run and the caller has the results
Return(c, call, err, val, vals) ==
    /\ mutex' = "free"
    /\ pc' = [pc EXCEPT ![c] = "idle"]
    /\ cur' = [cur EXCEPT ![c] = NoCall]
    /\ last' = Returned("client", call, err, val, vals)

\* a handler reaches r.watchers[iden] <- struct{}{} with the mutex held
Block(c, call) ==
    /\ mutex' = c
    /\ pc' = [pc EXCEPT ![c] = "ping"]
    /\ cur' = [cur EXCEPT ![c] = call]
    /\ last' = NoReturn

\* a ping that resets every watch goroutine in its select, not only the receiver
PingReceived_Broadcast(t) ==
    [u \in Slots |-> IF timers[u].state = "armed"
                     THEN [timers[u] EXCEPT !.elapsed = 0]
                     ELSE timers[u]]

\* case <-ping: left = d.lifetime, and the select starts a new time.After(left)
PingReceived(t) == [timers EXCEPT ![t].elapsed = 0]

\* a watch goroutine that still receives pings after its timeout
CanSend_AfterTimeout(iden) == timers[watchers[iden]].state # "exited"

\* the goroutine that would receive a send on the ping channel of iden is in its select
CanSend(iden) == timers[watchers[iden]].state = "armed"

\* return r.sessions[iden][key], nil
GetValue(iden, key) == Lookup(sessions[iden], key)

\* Set that keeps the value a key already has
SetRows_KeepOld(iden, key, value) ==
    IF Has(sessions[iden], key)
    THEN sessions
    ELSE [sessions EXCEPT ![iden] = Store(sessions[iden], key, value)]

\* Set that stores the pair in every session of the Room
SetRows_AllRows(iden, key, value) ==
    [i \in DOMAIN sessions |-> Store(sessions[i], key, value)]

\* r.sessions[iden][key] = value
SetRows(iden, key, value) == [sessions EXCEPT ![iden] = Store(sessions[iden], key, value)]

\* the loop of GetBatch: the error it ends with
BatchErr(iden, keys) ==
    IF \E n \in 1..Len(keys) : ~Has(sessions[iden], keys[n])
    THEN ErrKeyDoesntExist
    ELSE ErrNil

\* GetBatch that returns the values it has found when it meets a missing key
BatchValues_Partial(iden, keys) ==
    LET found == {n \in 1..Len(keys) : \A j \in 1..n : Has(sessions[iden], keys[j])} IN
    [n \in 1..Cardinality(found) |-> sessions[iden][keys[n]]]

\* the loop of GetBatch: the slice it returns (nil with an error)
BatchValues(iden, keys) ==
    IF BatchErr(iden, keys) # ErrNil
    THEN NoKeys
    ELSE [n \in 1..Len(keys) |-> sessions[iden][keys[n]]]

\* Add without its existence tests
AddCheck_Missing(iden) == ErrNil

\* the two existence tests of Add
AddCheck(iden) ==
    IF iden \in DOMAIN sessions THEN ErrAlreadyExists
    ELSE IF iden \in DOMAIN watchers THEN ErrAlreadyExists
    ELSE ErrNil

\* r.sessions[iden] = make(map[string]string, 0)
AddSession(iden) == Store(sessions, iden, EmptyMap)

\* r.watchers[iden] = make(chan struct{}, 0), the channel named t
AddWatcher(iden, t) == Store(watchers, iden, t)

\* go r.dispatcher.watch(iden, r.watchers[iden], r.killer)
GoWatch(iden, t) == [timers EXCEPT ![t] = Armed(iden)]

\* delete(r.sessions, iden)
DelSession(iden) == Delete(sessions, iden)

\* Del that leaves the ping channel in the watchers map
DelWatcher_Forgotten(iden) == watchers

\* delete(r.watchers, iden)
DelWatcher(iden) == Delete(watchers, iden)

\* ------------------------------------------------------------- clients
\* Room.Add, whole: it never blocks once it has the mutex
Add(c, iden) ==
    /\ pc[c] = "idle" /\ mutex = "free"
    /\ LET call == Call("Add", iden, "", "", NoKeys) IN
       IF AddCheck(iden) # ErrNil
       THEN /\ Return(c, call, AddCheck(iden), "", NoKeys)
            /\ UNCHANGED <<sessions, watchers, timers, reaper, idle, lastSet, explicit>>
       ELSE /\ \E t \in Slots : FreeSlot(t)
            /\ sessions' = AddSession(iden)
            /\ watchers' = AddWatcher(iden, NewSlot)
            /\ timers' = GoWatch(iden, NewSlot)
            /\ idle' = [idle EXCEPT ![iden] = 0]
            /\ lastSet' = [lastSet EXCEPT ![iden] = EmptyMap]
            /\ explicit' = explicit \ {NewSlot}
            /\ Return(c, call, ErrNil, "", NoKeys)
            /\ UNCHANGED reaper

\* Room.Del called by a client, whole
Del(c, iden) ==
    /\ pc[c] = "idle" /\ mutex = "free"
    /\ LET call == Call("Del", iden, "", "", NoKeys)
           err  == accessCheck(iden, "") IN
       IF err # ErrNil
       THEN /\ Return(c, call, err, "", NoKeys)
            /\ UNCHANGED <<sessions, watchers, timers, reaper, idle, lastSet, explicit>>
       ELSE /\ sessions' = DelSession(iden)
            /\ watchers' = DelWatcher(iden)
            /\ explicit' = explicit \cup {watchers[iden]}
            /\ idle' = [idle EXCEPT ![iden] = 0]
            /\ lastSet' = [lastSet EXCEPT ![iden] = EmptyMap]
            /\ Return(c, call, ErrNil, "", NoKeys)
            /\ UNCHANGED <<timers, reaper>>

\* Room.Get up to its send on the ping channel
Get(c, iden, key) ==
    /\ pc[c] = "idle" /\ mutex = "free"
    /\ LET call == Call("Get", iden, key, "", NoKeys)
           err  == accessCheck(iden, key) IN
       IF err # ErrNil
       THEN Return(c, call, err, "", NoKeys)
       ELSE Block(c, call)
    /\ UNCHANGED <<sessions, watchers, timers, reaper, idle, lastSet, explicit>>

\* Room.Get from the send on: the watcher takes the ping, Get returns the value
GetSend(c) ==
    /\ pc[c] = "ping" /\ cur[c].op = "Get"
    /\ CanSend(cur[c].iden)
    /\ timers' = PingReceived(watchers[cur[c].iden])
    /\ idle' = [idle EXCEPT ![cur[c].iden] = 0]
    /\ Return(c, cur[c], ErrNil, GetValue(cur[c].iden, cur[c].key), NoKeys)
    /\ UNCHANGED <<sessions, watchers, reaper, lastSet, explicit>>

\* Room.GetBatch up to its send on the ping channel
GetBatch(c, iden, keys) ==
    /\ pc[c] = "idle" /\ mutex = "free"
    /\ LET call == Call("GetBatch", iden, "", "", keys)
           err  == accessCheck(iden, "") IN
       IF err # ErrNil
       THEN Return(c, call, err, "", NoKeys)
       ELSE Block(c, call)
    /\ UNCHANGED <<sessions, watchers, timers, reaper, idle, lastSet, explicit>>

\* Room.GetBatch from the send on: the ping is taken, then the keys are looked up
GetBatchSend(c) ==
    /\ pc[c] = "ping" /\ cur[c].op = "GetBatch"
    /\ CanSend(cur[c].iden)
    /\ timers' = PingReceived(watchers[cur[c].iden])
    /\ LET err == BatchErr(cur[c].iden, cur[c].keys) IN
       /\ idle' = IF err = ErrNil THEN [idle EXCEPT ![cur[c].iden] = 0] ELSE idle
       /\ Return(c, cur[c], err, "", BatchValues(cur[c].iden, cur[c].keys))
    /\ UNCHANGED <<sessions, watchers, reaper, lastSet, explicit>>

\* Room.Set up to its send on the ping channel
Set(c, iden, key, value) ==
    /\ pc[c] = "idle" /\ mutex = "free"
    /\ LET call == Call("Set", iden, key, value, NoKeys)
           err  == accessCheck(iden, "") IN
       IF err # ErrNil
       THEN Return(c, call, err, "", NoKeys)
       ELSE Block(c, call)
    /\ UNCHANGED <<sessions, watchers, timers, reaper, idle, lastSet, explicit>>

\* Room.Set from the send on: the ping is taken, then the pair is stored
SetSend(c) ==
    /\ pc[c] = "ping" /\ cur[c].op = "Set"
    /\ CanSend(cur[c].iden)
    /\ timers' = PingReceived(watchers[cur[c].iden])
    /\ sessions' = SetRows(cur[c].iden, cur[c].key, cur[c].value)
    /\ idle' = [idle EXCEPT ![cur[c].iden] = 0]
    /\ lastSet' = [lastSet EXCEPT ![cur[c].iden] = Store(lastSet[cur[c].iden], cur[c].key, cur[c].value)]
    /\ Return(c, cur[c], ErrNil, "", NoKeys)
    /\ UNCHANGED <<watchers, reaper, explicit>>

\* ------------------------------------------------------------- dispatcher.watch
\* the clock advances by one tick (counters stop at Lifetime: only "at least Lifetime" matters)
Tick ==
    /\ timers' = [t \in Slots |->
          IF timers[t].state = "armed"
          THEN [timers[t] EXCEPT !.elapsed = Min(timers[t].elapsed + 1, Lifetime)]
          ELSE timers[t]]
    /\ idle' = [i \in Idens |->
          IF i \in DOMAIN sessions THEN Min(idle[i] + 1, Lifetime) ELSE idle[i]]
    /\ <<timers', idle'>> # <<timers, idle>>
    /\ last' = NoReturn
    /\ UNCHANGED <<mutex, sessions, watchers, reaper, pc, cur, lastSet, explicit>>

\* case <-time.After(left): the goroutine leaves the select for kill <- iden
WatchTimeout(t) ==
    /\ timers[t].state = "armed"
    /\ timers[t].elapsed >= Lifetime
    /\ timers' = [timers EXCEPT ![t] = [state |-> "firing", iden |-> timers[t].iden, elapsed |-> 0]]
    /\ last' = NoReturn
    /\ UNCHANGED <<mutex, sessions, watchers, reaper, pc, cur, idle, lastSet, explicit>>

\* ------------------------------------------------------------- Room.killWatch
\* kill <- iden meets iden := <-r.killer; the watch goroutine returns
KillRecv(t) ==
    /\ reaper.pc = "recv"
    /\ timers[t].state = "firing"
    /\ reaper' = [pc |-> "del", iden |-> timers[t].iden, from |-> t]
    /\ timers' = [timers EXCEPT ![t] = Exited]
    /\ last' = NoReturn
    /\ UNCHANGED <<mutex, sessions, watchers, pc, cur, idle, lastSet, explicit>>

\* err := r.Del(iden), whole, and the error is dropped
KillDel ==
    /\ reaper.pc = "del" /\ mutex = "free"
    /\ LET iden == reaper.iden
           err  == accessCheck(iden, "") IN
       /\ IF err # ErrNil
          THEN UNCHANGED <<sessions, watchers, idle, lastSet>>
          ELSE /\ sessions' = DelSession(iden)
               /\ watchers' = DelWatcher(iden)
               /\ idle' = [idle EXCEPT ![iden] = 0]
               /\ lastSet' = [lastSet EXCEPT ![iden] = EmptyMap]
       /\ last' = Returned("reaper", Call("Del", iden, "", "", NoKeys), err, "", NoKeys)
    /\ explicit' = explicit \ {reaper.from}
    /\ reaper' = [pc |-> "recv", iden |-> "", from |-> 0]
    /\ UNCHANGED <<mutex, timers, pc, cur>>

\* ------------------------------------------------------------- specification
Next ==
    \/ \E c \in Clients, i \in Idens : Add(c, i)
    \/ \E c \in Clients, i \in Idens : Del(c, i)
    \/ \E c \in Clients, i \in Idens, k \in Keys : Get(c, i, k)
    \/ \E c \in Clients : GetSend(c)
    \/ \E c \in Clients, i \in Idens, ks \in BatchArgs : GetBatch(c, i, ks)
    \/ \E c \in Clients : GetBatchSend(c)
    \/ \E c \in Clients, i \in Idens, k \in Keys, v \in Values : Set(c, i, k, v)
    \/ \E c \in Clients : SetSend(c)
    \/ Tick
    \/ \E t \in Slots : WatchTimeout(t)
    \/ \E t \in Slots : KillRecv(t)
    \/ KillDel

Spec == Init /\ [][Next]_vars

\* The scheduling the Go runtime gives: time passes, a goroutine that can run
\* does, a rendezvous both sides are ready for happens, a sender parked on the
\* killer channel is served in its turn (a channel's send queue is first in,
\* first out), and sync.Mutex hands the lock to a waiter that keeps finding it
\* taken (starvation mode).  Client calls are the environment's: nothing obliges
\* a client to call.
FairSpec ==
    /\ Spec
    /\ WF_vars(Tick)
    /\ \A t \in Slots : WF_vars(WatchTimeout(t))
    /\ \A t \in Slots : SF_vars(KillRecv(t))
    /\ SF_vars(KillDel)
    /\ \A c \in Clients : WF_vars(GetSend(c))
    /\ \A c \in Clients : WF_vars(GetBatchSend(c))
    /\ \A c \in Clients : WF_vars(SetSend(c))

\* ------------------------------------------------------------- claims
\* the step just taken was the return of a client's call of op
ClientReturned(op) == last.by = "client" /\ last.call.op = op

\* C1: no handler is ever blocked on the send on the ping channel, with the
\* mutex held, while no goroutine will receive from that channel again (the
\* watch goroutine has left its select for good): every call returns and the
\* Room never freezes.
C1_NoStuckSend ==
    \A c \in Clients : pc[c] = "ping" => CanSend(cur[c].iden)

\* a client's Get, GetBatch, Set or Del on session i returns without error
Activity(i) ==
    /\ last'.by = "client"
    /\ last'.call.iden = i
    /\ last'.call.op \in {"Get", "GetBatch", "Set", "Del"}
    /\ last'.err = ErrNil

\* C2: a session that from some point on sees no successful Get, GetBatch or
\* Set and no explicit Del is eventually removed from the table: no session
\* stays in the table for ever unless such calls keep succeeding on it.
C2_Expires ==
    \A i \in Idens : (<>[](i \in DOMAIN sessions)) => ([]<><<Activity(i)>>_vars)

\* C3: whenever killWatch's Del removes a session, at least one lifetime has
\* passed since that session's Add or last successful Get, GetBatch or Set.
C3_NoEarlyReap ==
    [][(last'.by = "reaper" /\ last'.err = ErrNil) => idle[reaper.iden] >= Lifetime]_vars

\* C4: when a session's expiry races with a client's Del of it, exactly one of
\* the two Dels succeeds: killWatch's Del, called for a session that a client's
\* Del has already removed, returns ErrDoesntExist.
C4_OneDelWins ==
    [][(last'.by = "reaper" /\ reaper.from \in explicit) => last'.err = ErrDoesntExist]_vars

\* C5: Get on an existing session with a key that is not in it (the empty
\* key too) returns ErrKeyDoesntExist and no value.
C5_MissingKey ==
    (/\ ClientReturned("Get")
     /\ last.call.iden \in DOMAIN sessions
     /\ ~Has(sessions[last.call.iden], last.call.key))
    => (last.err = ErrKeyDoesntExist /\ last.val = "")

\* C6: a client's call that returns an error changes neither the session
\* table, nor the watchers map, nor any timer (it delivers no ping, so no
\* deadline is refreshed).
C6_FailedCallNoEffect ==
    [][(last'.by = "client" /\ last'.err # ErrNil)
         => (sessions' = sessions /\ watchers' = watchers /\ timers' = timers)]_vars

\* the watch goroutines that have not returned
Running(tm) == {t \in Slots : tm[t].state # "exited"}

\* C7: Add of an identifier that has a session returns ErrAlreadyExists and
\* leaves the table, the watchers map and the timers as they were (no new
\* goroutine); Add of an identifier without a session returns nil, inserts an
\* empty session and leaves the other sessions alone.
C7_Uniqueness ==
    [][(last'.by = "client" /\ last'.call.op = "Add") =>
         LET i == last'.call.iden IN
         IF i \in DOMAIN sessions
         THEN /\ last'.err = ErrAlreadyExists
              /\ sessions' = sessions /\ watchers' = watchers /\ timers' = timers
         ELSE /\ last'.err = ErrNil
              /\ DOMAIN sessions' = DOMAIN sessions \cup {i}
              /\ sessions'[i] = EmptyMap
              /\ \A j \in DOMAIN sessions : sessions'[j] = sessions[j]
              /\ Cardinality(Running(timers')) = Cardinality(Running(timers)) + 1]_vars

\* C7's case: an Add was refused for a session that holds data
C7_Witness ==
    /\ ClientReturned("Add") /\ last.err = ErrAlreadyExists
    /\ last.call.iden \in DOMAIN sessions
    /\ sessions[last.call.iden] # EmptyMap

\* C8: Get, GetBatch, Set and Del of an identifier that is not in the table
\* return ErrDoesntExist, never reach the send on a ping channel, and change
\* neither the table nor the watchers map nor the timers.
C8_MissingSession ==
    [][/\ (/\ last'.by = "client"
           /\ last'.call.op \in {"Get", "GetBatch", "Set", "Del"}
           /\ last'.call.iden \notin DOMAIN sessions)
          => (/\ last'.err = ErrDoesntExist
              /\ sessions' = sessions /\ watchers' = watchers /\ timers' = timers)
       /\ \A c \in Clients :
            (pc[c] = "idle" /\ pc'[c] = "ping") => cur'[c].iden \in DOMAIN sessions]_vars

\* C8's case: a session was there, is gone, and a Set of it has been refused
C8_Witness ==
    /\ ClientReturned("Set") /\ last.err = ErrDoesntExist
    /\ last.call.iden \notin DOMAIN sessions
    /\ \E t \in Slots : timers[t].state # "exited" /\ timers[t].iden = last.call.iden

\* C9: GetBatch on an existing session returns ErrKeyDoesntExist and no
\* values if one of its keys is absent, and otherwise one value per key, in the
\* keys' order, each the value stored for that key.
C9_BatchAllOrNothing ==
    (ClientReturned("GetBatch") /\ last.call.iden \in DOMAIN sessions) =>
        LET m    == sessions[last.call.iden]
            keys == last.call.keys IN
        IF \E n \in 1..Len(keys) : ~Has(m, keys[n])
        THEN last.err = ErrKeyDoesntExist /\ last.vals = << >>
        ELSE /\ last.err = ErrNil
             /\ Len(last.vals) = Len(keys)
             /\ \A n \in 1..Len(keys) : last.vals[n] = m[keys[n]]

\* C9's case: a batch of two different keys came back with two different values
C9_Witness ==
    /\ ClientReturned("GetBatch") /\ last.err = ErrNil
    /\ Len(last.call.keys) = 2
    /\ last.call.keys[1] # last.call.keys[2]
    /\ last.vals[1] # last.vals[2]

\* C10: the table is the sequential map the calls build in the order they
\* took the mutex: a key is in a session exactly if a Set of it succeeded since
\* the session's latest Add, with the value of the latest such Set, and a
\* successful Get of such a key returns that value.
C10_Linearizable ==
    /\ \A i \in DOMAIN sessions : sessions[i] = lastSet[i]
    /\ (/\ ClientReturned("Get") /\ last.err = ErrNil
        /\ Has(lastSet[last.call.iden], last.call.key))
       => last.val = lastSet[last.call.iden][last.call.key]

\* C10's case: a Get returned the value stored under a key, next to another
\* session that holds a different value under the same key
C10_Witness ==
    /\ ClientReturned("Get") /\ last.err = ErrNil /\ last.val = "v2"
    /\ last.call.key # ""
    /\ \E j \in DOMAIN sessions :
          /\ j # last.call.iden
          /\ Has(sessions[j], last.call.key)
          /\ sessions[j][last.call.key] = "v1"

\* C11: a Set that succeeds changes the entry of its key in its session and
\* nothing else: the session's other keys, every other session (the same key
\* in it too) and the set of sessions stay as they were.
C11_Isolation ==
    [][(last'.by = "client" /\ last'.call.op = "Set" /\ last'.err = ErrNil) =>
         LET a == last'.call.iden
             k == last'.call.key IN
         /\ DOMAIN sessions' = DOMAIN sessions
         /\ \A b \in DOMAIN sessions : b # a => sessions'[b] = sessions[b]
         /\ DOMAIN sessions'[a] = DOMAIN sessions[a] \cup {k}
         /\ sessions'[a][k] = last'.call.value
         /\ \A j \in DOMAIN sessions[a] : j # k => sessions'[a][j] = sessions[a][j]]_vars

\* C11's case: a Set has stored a value under a key that another session holds
\* with a different value, in a session that holds another key as well
C11_Witness ==
    /\ ClientReturned("Set") /\ last.err = ErrNil
    /\ \E b \in DOMAIN sessions :
          /\ b # last.call.iden
          /\ Has(sessions[b], last.call.key)
          /\ sessions[b][last.call.key] # last.call.value
    /\ \E j \in DOMAIN sessions[last.call.iden] : j # last.call.key

\* C12: as long as a session is in the table, the watch goroutine of its ping
\* channel is in its select, ready to receive a ping.
C12_WatcherArmed ==
    \A i \in DOMAIN watchers : timers[watchers[i]].state = "armed"

\* the watch goroutines running for identifier i: in the select, or at kill <- iden
WatchersOf(i) == {t \in Slots : timers[t].state # "exited" /\ timers[t].iden = i}

\* C13: no identifier that is in the table has more than one watch goroutine
\* running for it.
C13_OneTimerPerSession ==
    \A i \in DOMAIN sessions : Cardinality(WatchersOf(i)) <= 1

C15_WatchNeverWaitsForKill ==
    \A t \in Slots : timers[t].state = "firing" => reaper.pc = "recv"

\* the watch goroutine t receives a ping from a handler
PingTaken(t) ==
    \E c \in Clients :
        /\ pc[c] = "ping" /\ pc'[c] = "idle"
        /\ watchers[cur[c].iden] = t

\* C16: every watch goroutine that stops receiving pings eventually times out,
\* has its identifier received by killWatch and returns, the goroutine of a
\* session removed by Del too: none runs for ever without receiving pings.
C16_WatchersExit ==
    \A t \in Slots :
        (<>[](timers[t].state # "exited")) => ([]<><<PingTaken(t)>>_vars)

\* C17: a watch goroutine sends its identifier on killer at most once and
\* returns with that send; after its timeout it receives no ping and never goes
\* back to its select; and a watch goroutine starts exactly when an Add
\* succeeds, one per Add.
C17_TimerStateMachine ==
    [][/\ \A t \in Slots : timers[t].state = "armed" =>
             /\ timers'[t].state \in {"armed", "firing"}
             /\ timers'[t].iden = timers[t].iden
       /\ \A t \in Slots : timers[t].state = "firing" =>
             \/ timers'[t] = timers[t]
             \/ /\ timers'[t] = Exited
                /\ reaper.pc = "recv"
                /\ reaper' = [pc |-> "del", iden |-> timers[t].iden, from |-> t]
       /\ (reaper.pc = "recv" /\ reaper'.pc = "del") =>
             /\ timers[reaper'.from].state = "firing"
             /\ timers'[reaper'.from] = Exited
       /\ \A c \in Clients : (pc[c] = "ping" /\ pc'[c] = "idle") =>
             timers[watchers[cur[c].iden]].state = "armed"
       /\ Cardinality({t \in Slots : timers[t].state = "exited" /\ timers'[t].state # "exited"})
             = IF last'.by = "client" /\ last'.call.op = "Add" /\ last'.err = ErrNil
               THEN 1 ELSE 0
       /\ \A t \in Slots : (timers[t].state = "exited" /\ timers'[t].state # "exited") =>
             timers'[t] = Armed(last'.call.iden)]_vars

\* C17's case: a watch goroutine has sent its identifier and returned, and a
\* handler is at the send on its ping channel, which it will not receive
C17_Witness ==
    /\ reaper.pc = "del"
    /\ timers[reaper.from] = Exited
    /\ \E c \in Clients : pc[c] = "ping" /\ watchers[cur[c].iden] = reaper.from

\* C18: a Get, GetBatch or Set that succeeds has delivered its ping with the
\* mutex held, to the watch goroutine of the ping channel of its session and to
\* no other; an Add or a Del that succeeds delivers no ping to any watch
\* goroutine.
C18_OnePing ==
    [][(last'.by = "client" /\ last'.err = ErrNil) =>
         LET i == last'.call.iden IN
         IF last'.call.op \in {"Get", "GetBatch", "Set"}
         THEN /\ \E c \in Clients : mutex = c /\ pc[c] = "ping" /\ cur[c] = last'.call
              /\ timers[watchers[i]].state = "armed"
              /\ timers[watchers[i]].iden = i
              /\ timers' = [timers EXCEPT ![watchers[i]].elapsed = 0]
         ELSE \A t \in Slots : timers[t].state # "exited" => timers'[t] = timers[t]]_vars

\* C18's case: a Get has refreshed its session's deadline while the watch
\* goroutine of another session keeps the time it has counted
C18_Witness ==
    /\ ClientReturned("Get") /\ last.err = ErrNil
    /\ timers[watchers[last.call.iden]].elapsed = 0
    /\ \E j \in DOMAIN watchers :
          /\ j # last.call.iden
          /\ timers[watchers[j]].state = "armed"
          /\ timers[watchers[j]].elapsed > 0

====
